---- MODULE Spec2Model ----
(***************************************************************************)
(* Model of the chat relay server of src/server.py (class ChatServer) and  *)
(* of the peers that talk to it (src/client.py).                           *)
(*                                                                         *)
(* Threads are modelled with an explicit call stack (a sequence of         *)
(* frames), so that broadcast and _remove_client are the same code         *)
(* whoever calls them: the accept loop, a per-client handler, shutdown,    *)
(* or each other.  threading.Lock is not reentrant: a thread acquires it   *)
(* only when nobody, itself included, holds it.                            *)
(*                                                                         *)
(* Byte strings are sequences of byte values (0..255).                     *)
(*                                                                         *)
(* Boundary-of-transport assumptions (the ones the repository makes):      *)
(*  - one recv returns one unit the peer sent (no coalescing, no split);   *)
(*  - a recv/accept on a socket this process has closed raises OSError;    *)
(*  - a send to a peer that has gone may raise OSError or may still be     *)
(*    accepted by the local transport (both outcomes are modelled).        *)
(***************************************************************************)
EXTENDS Integers, Sequences, FiniteSets, TLC

\* ------------------------------------------------------------------ bounds
\* number of inbound connections the peers open, in order of acceptance
NumConns == 2
\* number of payload units the peers send in all, after their nickname replies
MaxMsgs == 1
\* number of peers that close or reset their connection
MaxFaults == 1
\* number of times shutdown() is called
MaxShutdownCalls == 1
\* the same where a caller repeats its call after the first one has returned
MaxRepeatCalls == 2
\* number of payload units the peers send where the order of units is observed
MaxOrderedMsgs == 2

\* ------------------------------------------------------ program constants
BUFFER_SIZE == 4096

\* "NICK"
NICK_REQUEST == <<78, 73, 67, 75>>
\* " joined the chat."
JoinedSuffix ==
    <<32, 106, 111, 105, 110, 101, 100, 32, 116, 104, 101, 32, 99, 104, 97, 116, 46>>
\* " left the chat."
LeftSuffix ==
    <<32, 108, 101, 102, 116, 32, 116, 104, 101, 32, 99, 104, 97, 116, 46>>
\* "Connected to the server."
ConnectedMsg ==
    <<67, 111, 110, 110, 101, 99, 116, 101, 100, 32, 116, 111, 32, 116, 104, 101, 32,
      115, 101, 114, 118, 101, 114, 46>>

\* ----------------------------------------------------------- identifiers
Conns == 1..NumConns
\* the thread that runs start() and the accept loop (the main thread)
Main == 0
\* another thread of the embedding program, which may call shutdown()
Ext == NumConns + 1
\* the handler thread of connection c has the identifier c
Threads == 0..(NumConns + 1)
NoThread == -1
NoConn == 0

\* ------------------------------------------------------ what the peers send
\* nickname replies: "a", " b\n", " " and the invalid UTF-8 byte 0xFF
NickReplies == {<<97>>, <<32, 98, 10>>, <<32>>, <<255>>}
\* payload units: "hi" and two bytes that are not UTF-8
Payloads == {<<104, 105>>, <<255, 254>>}

Range(s) == {s[i] : i \in DOMAIN s}

\* --------------------------------------------------------- pure functions
\* bytes.decode("utf-8") raises UnicodeDecodeError (a ValueError) on a byte
\* that cannot start a UTF-8 sequence; here every byte >= 128 is such a byte
\* (the modelled alphabet has no multi-byte sequences), and ASCII decodes to
\* the code points of the same values.
\* (DecodeNeverFails: decode(errors="ignore").)
DecodeNeverFails(b) == FALSE

DecodeFails(b) == \E i \in DOMAIN b : b[i] >= 128

\* the ASCII characters str.strip() removes
Whitespace == {9, 10, 11, 12, 13, 28, 29, 30, 31, 32}

RECURSIVE LStrip(_)
LStrip(s) == IF s # <<>> /\ Head(s) \in Whitespace THEN LStrip(Tail(s)) ELSE s

RECURSIVE RStrip(_)
RStrip(s) ==
    IF s # <<>> /\ s[Len(s)] \in Whitespace
    THEN RStrip(SubSeq(s, 1, Len(s) - 1))
    ELSE s

NoStrip(s) == s

\* str.strip()
Strip(s) == RStrip(LStrip(s))

\* f"{nickname} joined the chat.".encode("utf-8")
JoinNotice(nickname) == nickname \o JoinedSuffix
\* f"{nickname} left the chat.".encode("utf-8")
LeftNotice(nickname) == nickname \o LeftSuffix

\* the last position of the list, whatever x is
LastIndex(s, x) == Len(s)

\* list.index(x): the first position of x
IndexOf(s, x) == CHOOSE i \in DOMAIN s : s[i] = x /\ \A j \in 1..(i - 1) : s[j] # x

\* list.pop(idx)
PopAt(s, idx) == SubSeq(s, 1, idx - 1) \o SubSeq(s, idx + 1, Len(s))

\* socket.recv(BUFFER_SIZE) on a unit: at most BUFFER_SIZE bytes of it
RecvUnit(u) == SubSeq(u, 1, IF Len(u) < BUFFER_SIZE THEN Len(u) ELSE BUFFER_SIZE)

\* ------------------------------------------------------------------ state
VARIABLES
    running,      \* self.running
    listen,       \* self.server_socket: "unbound", "listening" or "closed"
    clients,      \* self.clients
    nicknames,    \* self.nicknames
    lock,         \* self.lock: the thread that holds it, or NoThread
    stack,        \* the call stack of every thread (<<>>: not running)
    procAlive,    \* FALSE once sys.exit(0) has ended the process
    crashed,      \* TRUE once an exception has left _accept_connections
    sdCalls,      \* how many times shutdown() has been called
    nextConn,     \* the next inbound connection accept() will return
    sockOpen,     \* per connection: the server's socket object is not closed
    peer,         \* per connection: "none", "alive", "closed" (FIN) or "reset"
    nmsgs,        \* how many payload units the peers have sent in all
    nfaults,      \* how many peers have closed or reset their connection
    sent,         \* per connection: units the server has passed to send(), in order
    reply,        \* history: what the handshake's recv returned, per connection
    regName,      \* history: the nickname each connection was registered with
    removals,     \* history: how many times an entry of the connection was removed
    leftGen,      \* history: how many "left the chat." notices were generated for it
    joinGen,      \* history: how many "joined the chat." notices were generated for it
    started,      \* history: a handler thread was started for the connection
    disconnected, \* history: the handler's recv returned b"" or raised while running
    readLog       \* history: the units the handler of each connection has read, in order

srvVars == <<running, listen, clients, nicknames, lock>>
ctlVars == <<procAlive, crashed, sdCalls, nextConn, nmsgs, nfaults>>
connVars == <<sockOpen, peer, sent>>
histVars == <<reply, regName, removals, leftGen, joinGen, started, disconnected,
              readLog>>
vars == <<srvVars, ctlVars, connVars, histVars, stack>>

\* --------------------------------------------------------------- frames
\* One frame of a call stack: the position in a function and its locals.
\* snap, okTo and failed are history fields: the registry when the fan-out
\* (or the shutdown) began, the (connection, bytes) pairs passed to send()
\* without error, and the connections whose send() raised.
Frame(pc) ==
    [pc |-> pc, client |-> NoConn, nickname |-> <<>>, data |-> <<>>,
     exclude |-> NoConn, idx |-> 0, iter |-> <<>>, snap |-> <<>>, okTo |-> <<>>,
     failed |-> {}]

Top(t) == stack[t][Len(stack[t])]
AtPc(t, pc) == procAlive /\ stack[t] # <<>> /\ Top(t).pc = pc

SetTop(s, f) == [s EXCEPT ![Len(s)] = f]
Call(s, f, g) == Append(SetTop(s, f), g)
Return(s) == SubSeq(s, 1, Len(s) - 1)

\* the payload decoded with errors ignored and encoded again
BroadcastReencoded(data, exclude) ==
    [Frame("bc_acquire") EXCEPT !.data = SelectSeq(data, LAMBDA b : b < 128),
                                !.exclude = exclude]

\* a call broadcast(data, exclude)
BroadcastFrame(data, exclude) ==
    [Frame("bc_acquire") EXCEPT !.data = data, !.exclude = exclude]

\* a call shutdown()
ShutdownFrame == [Frame("sd_start") EXCEPT !.snap = clients]

\* ------------------------------------------------------------ transport
\* The arrival of a unit and the recv() that returns it are one step: unit u
\* is one the peer sends, or <<>> when no unit arrives.  (A unit that waits
\* in the socket buffer is read by a later step with the same result.)
\* recv() returns (does not block) when a unit arrives from a live peer,
\* when the peer has gone, or when this process has closed the socket object.
RecvReady(c, u) ==
    IF sockOpen[c] /\ peer[c] = "alive" THEN u # <<>> ELSE u = <<>>

\* what recv() does then: raise OSError, return one unit, or return b""
RecvKind(c) ==
    IF ~sockOpen[c] \/ peer[c] = "reset" THEN "err"
    ELSE IF peer[c] = "alive" THEN "data"
    ELSE "eof"

\* send() may return normally / may raise OSError
SendCanSucceed(c) == sockOpen[c]
SendCanFail(c) == ~sockOpen[c] \/ peer[c] \in {"closed", "reset"}

\* threading.Lock.acquire(): blocks while any thread holds the lock
NoLock(t) == TRUE
CanAcquire(t) == lock = NoThread

\* ------------------------------------------------------------------ Init
InitServer ==
    /\ running = FALSE
    /\ listen = "unbound"
    /\ clients = <<>>
    /\ nicknames = <<>>
    /\ lock = NoThread
    /\ stack = [t \in Threads |->
                  IF t = Main THEN <<Frame("start")>>
                  ELSE IF t = Ext THEN <<Frame("ext_idle")>>
                  ELSE <<>>]
    /\ procAlive = TRUE
    /\ crashed = FALSE
    /\ sdCalls = 0
    /\ nextConn = 1
    /\ nfaults = 0
    /\ sockOpen = [c \in Conns |-> FALSE]
    /\ peer = [c \in Conns |-> "none"]
    /\ sent = [c \in Conns |-> <<>>]
    /\ reply = [c \in Conns |-> [kind |-> "none", bytes |-> <<>>]]
    /\ regName = [c \in Conns |-> <<>>]
    /\ removals = [c \in Conns |-> 0]
    /\ leftGen = [c \in Conns |-> 0]
    /\ joinGen = [c \in Conns |-> 0]
    /\ started = [c \in Conns |-> FALSE]
    /\ disconnected = [c \in Conns |-> FALSE]
    /\ readLog = [c \in Conns |-> <<>>]

\* the peers have sent no payload unit yet
Init == InitServer /\ nmsgs = 0

\* the same server, with peers that send up to MaxOrderedMsgs units: the
\* count of units starts as far below the allowance MaxMsgs
OrderInit == InitServer /\ nmsgs = MaxMsgs - MaxOrderedMsgs

\* ------------------------------------------------- start and accept loop
\* start(): bind, listen, running = True, then the accept loop
Start(t) ==
    /\ AtPc(t, "start")
    /\ listen' = "listening"
    /\ running' = TRUE
    /\ stack' = [stack EXCEPT ![t] = SetTop(@, Frame("ac_loop"))]
    /\ UNCHANGED <<clients, nicknames, lock, ctlVars, connVars, histVars>>

\* while self.running: ... ; the loop's end is the return of start()
AcceptLoopTest(t) ==
    /\ AtPc(t, "ac_loop")
    /\ stack' = [stack EXCEPT ![t] =
                   IF running THEN SetTop(@, Frame("ac_accept")) ELSE Return(@)]
    /\ UNCHANGED <<srvVars, ctlVars, connVars, histVars>>

\* self.server_socket.accept() returns the next inbound connection
AcceptConn(t) ==
    /\ AtPc(t, "ac_accept")
    /\ listen = "listening"
    /\ nextConn \in Conns
    /\ nextConn' = nextConn + 1
    /\ peer' = [peer EXCEPT ![nextConn] = "alive"]
    /\ sockOpen' = [sockOpen EXCEPT ![nextConn] = TRUE]
    /\ stack' = [stack EXCEPT ![t] =
                   SetTop(@, [Frame("ac_nick_send") EXCEPT !.client = nextConn])]
    /\ UNCHANGED <<srvVars, procAlive, crashed, sdCalls, nmsgs, nfaults, sent, histVars>>

\* self.server_socket.accept() raises OSError: break
AcceptFails(t) ==
    /\ AtPc(t, "ac_accept")
    /\ listen = "closed"
    /\ stack' = [stack EXCEPT ![t] = Return(@)]
    /\ UNCHANGED <<srvVars, ctlVars, connVars, histVars>>

\* client.send(NICK_REQUEST.encode("utf-8")); on OSError close and continue
NickSend(t) ==
    /\ AtPc(t, "ac_nick_send")
    /\ LET c == Top(t).client IN
       \/ /\ SendCanSucceed(c)
          /\ sent' = [sent EXCEPT ![c] = Append(@, NICK_REQUEST)]
          /\ stack' = [stack EXCEPT ![t] =
                         SetTop(@, [Top(t) EXCEPT !.pc = "ac_nick_recv"])]
          /\ UNCHANGED <<sockOpen, reply>>
       \/ /\ SendCanFail(c)
          /\ sockOpen' = [sockOpen EXCEPT ![c] = FALSE]
          /\ reply' = [reply EXCEPT ![c] = [kind |-> "nosend", bytes |-> <<>>]]
          /\ stack' = [stack EXCEPT ![t] = SetTop(@, Frame("ac_loop"))]
          /\ UNCHANGED sent
    /\ UNCHANGED <<srvVars, ctlVars, peer,
                   regName, removals, leftGen, joinGen, started, disconnected, readLog>>

\* nickname = client.recv(BUFFER_SIZE).decode("utf-8").strip(); an empty
\* nickname, a decoding error or an OSError closes the client and continues.
\* The recv returns when the peer's reply r arrives (client.py, _receive_loop,
\* answers the request), or when the peer has gone without a reply.
NickRecv(t, r) ==
    /\ AtPc(t, "ac_nick_recv")
    /\ LET c == Top(t).client
           kind == RecvKind(c)
           bytes == IF kind = "data" THEN RecvUnit(r) ELSE <<>>
           nickname == Strip(bytes)
           ok == kind # "err" /\ ~DecodeFails(bytes) /\ nickname # <<>>
       IN
       /\ RecvReady(c, r)
       /\ reply' = [reply EXCEPT ![c] = [kind |-> kind, bytes |-> bytes]]
       /\ sockOpen' = [sockOpen EXCEPT ![c] = IF ok THEN @ ELSE FALSE]
       /\ stack' = [stack EXCEPT ![t] =
                      IF ok
                      THEN SetTop(@, [Top(t) EXCEPT !.pc = "ac_reg_lock",
                                                    !.nickname = nickname])
                      ELSE SetTop(@, Frame("ac_loop"))]
    /\ UNCHANGED <<srvVars, ctlVars, peer, sent,
                   regName, removals, leftGen, joinGen, started, disconnected, readLog>>

\* self.nicknames.append(nickname)
AppendName(names, name) == Append(names, name)

\* with self.lock: self.clients.append(client);
\* self.nicknames.append(nickname); the with block is left; then
\* self.broadcast(f"{nickname} joined the chat.", exclude=client) is called
Register(t) ==
    /\ AtPc(t, "ac_reg_lock")
    /\ CanAcquire(t)
    /\ LET f == Top(t) IN
       /\ clients' = Append(clients, f.client)
       /\ nicknames' = AppendName(nicknames, f.nickname)
       /\ lock' = NoThread
       /\ regName' = [regName EXCEPT ![f.client] = f.nickname]
       /\ joinGen' = [joinGen EXCEPT ![f.client] = @ + 1]
       /\ stack' = [stack EXCEPT ![t] =
                      Call(@, [f EXCEPT !.pc = "ac_ack"],
                           BroadcastFrame(JoinNotice(f.nickname), f.client))]
    /\ UNCHANGED <<running, listen, ctlVars, connVars,
                   reply, removals, leftGen, started, disconnected, readLog>>

\* client.send("Connected to the server."), then the handler thread is
\* started; an OSError of this send is caught nowhere
AckSend(t) ==
    /\ AtPc(t, "ac_ack")
    /\ LET c == Top(t).client IN
       \/ /\ SendCanSucceed(c)
          /\ sent' = [sent EXCEPT ![c] = Append(@, ConnectedMsg)]
          /\ started' = [started EXCEPT ![c] = TRUE]
          /\ stack' = [stack EXCEPT ![t] = SetTop(@, Frame("ac_loop")),
                                    ![c] = <<[Frame("hc_loop") EXCEPT !.client = c]>>]
          /\ UNCHANGED crashed
       \/ /\ SendCanFail(c)
          /\ crashed' = TRUE
          /\ stack' = [stack EXCEPT ![t] = <<>>]
          /\ UNCHANGED <<sent, started>>
    /\ UNCHANGED <<srvVars, procAlive, sdCalls, nextConn, nmsgs, nfaults, sockOpen, peer,
                   reply, regName, removals, leftGen, joinGen, disconnected, readLog>>

\* ------------------------------------------------------------ _remove_client
\* if client not in self.clients
Absent(cl, client) == client \notin Range(cl)

\* a call _remove_client(client), lines 69-73: it returns at once if the
\* client is not registered (no frame is left); else
\* idx = self.clients.index(client) and nickname = self.nicknames[idx].
\* Every caller holds the lock.
RemoveFrame(client) ==
    IF Absent(clients, client)
    THEN <<>>
    ELSE <<[Frame("rc_pop") EXCEPT !.client = client,
                                   !.idx = IndexOf(clients, client),
                                   !.nickname = nicknames[IndexOf(clients, client)]]>>

\* _remove_client(client), lines 75-80: pop the entry of both lists, close
\* the client, and call broadcast with the notice (the last statement: its
\* return is the return of _remove_client).  list.pop raises IndexError on
\* an index past the end; the exception is caught nowhere and ends the
\* thread, leaving every with block on its way.
RemovePop(t) ==
    /\ AtPc(t, "rc_pop")
    /\ LET f == Top(t) IN
       IF f.idx > Len(clients)
       THEN /\ stack' = [stack EXCEPT ![t] = <<>>]
            /\ lock' = IF lock = t THEN NoThread ELSE lock
            /\ crashed' = (crashed \/ t = Main)
            /\ UNCHANGED <<clients, nicknames, sockOpen, removals, leftGen>>
       ELSE /\ clients' = PopAt(clients, f.idx)
            /\ nicknames' = PopAt(nicknames, f.idx)
            /\ sockOpen' = [sockOpen EXCEPT ![f.client] = FALSE]
            /\ removals' = [removals EXCEPT ![f.client] = @ + 1]
            /\ leftGen' = [leftGen EXCEPT ![f.client] = @ + 1]
            /\ stack' = [stack EXCEPT ![t] =
                           SetTop(@, BroadcastFrame(LeftNotice(f.nickname), NoConn))]
            /\ UNCHANGED <<lock, crashed>>
    /\ UNCHANGED <<running, listen, procAlive, sdCalls, nextConn, nmsgs, nfaults, peer, sent,
                   reply, regName, joinGen, started, disconnected, readLog>>

\* ------------------------------------------------------ per-client handler
\* while self.running: (the test)
HandlerLoopTest(t) ==
    /\ AtPc(t, "hc_loop")
    /\ stack' = [stack EXCEPT ![t] =
                   SetTop(@, [Top(t) EXCEPT !.pc = IF running THEN "hc_recv" ELSE "hc_lock"])]
    /\ UNCHANGED <<srvVars, ctlVars, connVars, histVars>>

\* data = client.recv(BUFFER_SIZE); b"" or OSError breaks out of the loop,
\* anything else is passed to self.broadcast(data).  A unit p arrives when
\* the peer, once acknowledged, sends one (client.py, _send_loop).
HandlerRecv(t, p) ==
    /\ AtPc(t, "hc_recv")
    /\ LET c == Top(t).client
           kind == RecvKind(c)
       IN
       /\ RecvReady(c, p)
       /\ IF kind = "data"
          THEN LET data == RecvUnit(p) IN
               /\ nmsgs < MaxMsgs
               /\ nmsgs' = nmsgs + 1
               /\ stack' = [stack EXCEPT ![t] =
                              Call(@, [Top(t) EXCEPT !.pc = "hc_loop", !.data = data],
                                   BroadcastFrame(data, NoConn))]
               /\ readLog' = [readLog EXCEPT ![c] = Append(@, data)]
               /\ UNCHANGED disconnected
          ELSE /\ stack' = [stack EXCEPT ![t] = SetTop(@, [Top(t) EXCEPT !.pc = "hc_lock"])]
               /\ disconnected' = [disconnected EXCEPT ![c] = TRUE]
               /\ UNCHANGED <<nmsgs, readLog>>
    /\ UNCHANGED <<srvVars, procAlive, crashed, sdCalls, nextConn, nfaults,
                   sockOpen, peer, sent,
                   reply, regName, removals, leftGen, joinGen, started>>

\* with self.lock: self._remove_client(client)   (entering)
HandlerLock(t) ==
    /\ AtPc(t, "hc_lock")
    /\ CanAcquire(t)
    /\ lock' = t
    /\ stack' = [stack EXCEPT ![t] =
                   SetTop(@, [Top(t) EXCEPT !.pc = "hc_unlock"]) \o RemoveFrame(Top(t).client)]
    /\ UNCHANGED <<running, listen, clients, nicknames, ctlVars, connVars, histVars>>

\* the with block is left: the lock is released and the thread ends
HandlerUnlock(t) ==
    /\ AtPc(t, "hc_unlock")
    /\ lock' = NoThread
    /\ stack' = [stack EXCEPT ![t] = Return(@)]
    /\ UNCHANGED <<running, listen, clients, nicknames, ctlVars, connVars, histVars>>

\* ------------------------------------------------------------------ broadcast
\* every socket the server has accepted and not closed, in order of acceptance
EveryOpenSocket(cl) ==
    SelectSeq([i \in 1..NumConns |-> i], LAMBDA c : sockOpen[c])

\* list(self.clients): the recipients of a fan-out are a copy of the registry
Snapshot(cl) == cl

\* with self.lock: for client in list(self.clients):   (entering)
BroadcastAcquire(t) ==
    /\ AtPc(t, "bc_acquire")
    /\ CanAcquire(t)
    /\ lock' = t
    /\ stack' = [stack EXCEPT ![t] =
                   SetTop(@, [Top(t) EXCEPT !.pc = "bc_loop", !.iter = Snapshot(clients),
                                            !.snap = clients])]
    /\ UNCHANGED <<running, listen, clients, nicknames, ctlVars, connVars, histVars>>

NeverExcluded(client, exclude) == FALSE

\* if client is exclude: continue
Excluded(client, exclude) == client = exclude

BroadcastSkip(t) ==
    /\ AtPc(t, "bc_loop")
    /\ Top(t).iter # <<>>
    /\ Excluded(Head(Top(t).iter), Top(t).exclude)
    /\ stack' = [stack EXCEPT ![t] = SetTop(@, [Top(t) EXCEPT !.iter = Tail(@)])]
    /\ UNCHANGED <<srvVars, ctlVars, connVars, histVars>>

\* client.send(data) returns
BroadcastSendOk(t) ==
    /\ AtPc(t, "bc_loop")
    /\ Top(t).iter # <<>>
    /\ LET f == Top(t)
           c == Head(f.iter)
       IN
       /\ ~Excluded(c, f.exclude)
       /\ SendCanSucceed(c)
       /\ sent' = [sent EXCEPT ![c] = Append(@, f.data)]
       /\ stack' = [stack EXCEPT ![t] =
                      SetTop(@, [f EXCEPT !.iter = Tail(@),
                                          !.okTo = Append(@, <<c, f.data>>)])]
    /\ UNCHANGED <<srvVars, ctlVars, sockOpen, peer, histVars>>

\* client.send(data) raises OSError: self._remove_client(client)
BroadcastSendFail(t) ==
    /\ AtPc(t, "bc_loop")
    /\ Top(t).iter # <<>>
    /\ LET f == Top(t)
           c == Head(f.iter)
       IN
       /\ ~Excluded(c, f.exclude)
       /\ SendCanFail(c)
       /\ stack' = [stack EXCEPT ![t] =
                      SetTop(@, [f EXCEPT !.iter = Tail(@), !.failed = @ \cup {c}])
                      \o RemoveFrame(c)]
    /\ UNCHANGED <<srvVars, ctlVars, connVars, histVars>>

\* the loop is over: the with block is left (the lock is released) and
\* broadcast returns
BroadcastReturn(t) ==
    /\ AtPc(t, "bc_loop")
    /\ Top(t).iter = <<>>
    /\ lock' = NoThread
    /\ stack' = [stack EXCEPT ![t] = Return(@)]
    /\ UNCHANGED <<running, listen, clients, nicknames, ctlVars, connVars, histVars>>

\* ------------------------------------------------------------------ shutdown
\* shutdown() is called by another thread of the program
ShutdownCall(t) ==
    /\ t = Ext
    /\ AtPc(t, "ext_idle") \/ AtPc(t, "ext_ret")
    /\ listen # "unbound"
    /\ sdCalls < MaxShutdownCalls
    /\ sdCalls' = sdCalls + 1
    /\ stack' = [stack EXCEPT ![t] = Call(@, Frame("ext_ret"), ShutdownFrame)]
    /\ UNCHANGED <<srvVars, procAlive, crashed, nextConn, nmsgs, nfaults, connVars,
                   reply, regName, removals, leftGen, joinGen, started, disconnected, readLog>>

\* SIGINT: _signal_handler runs on top of whatever the main thread is doing
\* and calls server.shutdown(), then sys.exit(0)
Signal(t) ==
    /\ t = Main
    /\ procAlive
    /\ stack[t] # <<>>
    /\ listen # "unbound"
    /\ sdCalls < MaxShutdownCalls
    /\ \A i \in DOMAIN stack[t] : stack[t][i].pc # "sig_exit"
    /\ sdCalls' = sdCalls + 1
    /\ stack' = [stack EXCEPT ![t] = Append(Append(@, Frame("sig_exit")), ShutdownFrame)]
    /\ UNCHANGED <<srvVars, procAlive, crashed, nextConn, nmsgs, nfaults, connVars,
                   reply, regName, removals, leftGen, joinGen, started, disconnected, readLog>>

\* the flag negated
Toggled(r) == ~r

\* the value shutdown() assigns to self.running, whatever it was
Stopped(r) == FALSE

\* self.running = False
ShutdownStart(t) ==
    /\ AtPc(t, "sd_start")
    /\ running' = Stopped(running)
    /\ stack' = [stack EXCEPT ![t] = SetTop(@, [Top(t) EXCEPT !.pc = "sd_lock"])]
    /\ UNCHANGED <<listen, clients, nicknames, lock, ctlVars, connVars, histVars>>

\* with self.lock: every client of list(self.clients) is closed and both
\* lists are cleared; the with block is left
ShutdownClose(t) ==
    /\ AtPc(t, "sd_lock")
    /\ CanAcquire(t)
    /\ sockOpen' = [c \in Conns |-> sockOpen[c] /\ c \notin Range(clients)]
    /\ clients' = <<>>
    /\ nicknames' = <<>>
    /\ lock' = NoThread
    /\ stack' = [stack EXCEPT ![t] = SetTop(@, [Top(t) EXCEPT !.pc = "sd_listen"])]
    /\ UNCHANGED <<running, listen, ctlVars, peer, sent, histVars>>

\* self.server_socket.close(); shutdown returns
ShutdownListen(t) ==
    /\ AtPc(t, "sd_listen")
    /\ listen' = "closed"
    /\ stack' = [stack EXCEPT ![t] = Return(@)]
    /\ UNCHANGED <<running, clients, nicknames, lock, ctlVars, connVars, histVars>>

\* sys.exit(0) in the signal handler: the process ends, daemon threads die
SysExit(t) ==
    /\ AtPc(t, "sig_exit")
    /\ procAlive' = FALSE
    /\ UNCHANGED <<srvVars, crashed, sdCalls, nextConn, nmsgs, nfaults, connVars, histVars, stack>>

\* the caller whose shutdown() has returned calls it once more
ShutdownAgain(t) ==
    /\ t = Ext
    /\ AtPc(t, "ext_ret")
    /\ listen = "closed"
    /\ sdCalls >= 1
    /\ sdCalls < MaxRepeatCalls
    /\ sdCalls' = sdCalls + 1
    /\ stack' = [stack EXCEPT ![t] = Call(@, Frame("ext_ret"), ShutdownFrame)]
    /\ UNCHANGED <<srvVars, procAlive, crashed, nextConn, nmsgs, nfaults, connVars,
                   reply, regName, removals, leftGen, joinGen, started, disconnected, readLog>>

\* ------------------------------------------------------------------- peers
\* the peer closes its end (client.py, _disconnect): the server reads b""
PeerClose(c) ==
    /\ procAlive
    /\ peer[c] = "alive"
    /\ nfaults < MaxFaults
    /\ nfaults' = nfaults + 1
    /\ peer' = [peer EXCEPT ![c] = "closed"]
    /\ UNCHANGED <<srvVars, procAlive, crashed, sdCalls, nextConn, nmsgs,
                   sockOpen, sent, histVars, stack>>

\* the connection is reset: the server's next recv raises OSError
PeerReset(c) ==
    /\ procAlive
    /\ peer[c] = "alive"
    /\ nfaults < MaxFaults
    /\ nfaults' = nfaults + 1
    /\ peer' = [peer EXCEPT ![c] = "reset"]
    /\ UNCHANGED <<srvVars, procAlive, crashed, sdCalls, nextConn, nmsgs,
                   sockOpen, sent, histVars, stack>>

\* ------------------------------------------------------------ specification
\* the steps of a thread that serves: accept loop, handlers, broadcast, removal
ServeStep(t) ==
    \/ Start(t)
    \/ AcceptLoopTest(t)
    \/ AcceptConn(t)
    \/ NickSend(t)
    \/ \E r \in NickReplies \cup {<<>>} : NickRecv(t, r)
    \/ Register(t)
    \/ AckSend(t)
    \/ HandlerLoopTest(t)
    \/ \E p \in Payloads \cup {<<>>} : HandlerRecv(t, p)
    \/ HandlerLock(t)
    \/ RemovePop(t)
    \/ BroadcastAcquire(t)
    \/ BroadcastSkip(t)
    \/ BroadcastSendOk(t)
    \/ BroadcastSendFail(t)
    \/ BroadcastReturn(t)

\* the steps of shutdown(), and the steps only a shutdown makes possible: an
\* accept that raises, and a handler that comes back from _remove_client
\* (which returns only when shutdown() has emptied the registry before)
StopStep(t) ==
    \/ HandlerUnlock(t)
    \/ ShutdownStart(t)
    \/ ShutdownClose(t)
    \/ ShutdownListen(t)
    \/ SysExit(t)
    \/ AcceptFails(t)

\* what the peers do
PeerStep ==
    \/ \E c \in Conns : PeerClose(c)
    \/ \E c \in Conns : PeerReset(c)

\* the server as long as nobody stops it
RelayNext ==
    \/ \E t \in Threads : ServeStep(t)
    \/ PeerStep

Next ==
    \/ RelayNext
    \/ \E t \in Threads : StopStep(t)
    \/ \E t \in Threads : ShutdownCall(t)
    \/ \E t \in Threads : Signal(t)

Spec == Init /\ [][Next]_vars

\* Every thread that can take a step eventually takes one (the operating
\* system schedules every runnable thread); a blocked recv returns when a unit
\* arrives.  Peers that close, callers of shutdown() and signals are under no
\* obligation.
FairSpec ==
    Spec /\ \A t \in Threads : WF_vars(ServeStep(t)) /\ WF_vars(StopStep(t))

\* the same, for a server that is never asked to stop
RelayFairSpec ==
    Init /\ [][RelayNext]_vars /\ \A t \in Threads : WF_vars(ServeStep(t))

\* the steps of a thread that need nothing from a peer: every step of
\* ServeStep except a recv that returns a unit the peer has sent
ServerOnlyStep(t) ==
    \/ Start(t)
    \/ AcceptLoopTest(t)
    \/ AcceptConn(t)
    \/ NickSend(t)
    \/ NickRecv(t, <<>>)
    \/ Register(t)
    \/ AckSend(t)
    \/ HandlerLoopTest(t)
    \/ HandlerRecv(t, <<>>)
    \/ HandlerLock(t)
    \/ RemovePop(t)
    \/ BroadcastAcquire(t)
    \/ BroadcastSkip(t)
    \/ BroadcastSendOk(t)
    \/ BroadcastSendFail(t)
    \/ BroadcastReturn(t)

\* a server that is never asked to stop, whose threads are scheduled, and
\* whose peers are under no obligation to send anything: a recv stays
\* blocked as long as the peer is silent
SilentFairSpec ==
    Init /\ [][RelayNext]_vars /\ \A t \in Threads : WF_vars(ServerOnlyStep(t))

\* a server that is never asked to stop, with peers that send several units
OrderSpec == OrderInit /\ [][RelayNext]_vars

\* the server with a caller that repeats shutdown()
RepeatNext ==
    \/ Next
    \/ \E t \in Threads : ShutdownAgain(t)

RepeatSpec == Init /\ [][RepeatNext]_vars

\* ---------------------------------------------------------------- claims
Registered(c) == c \in Range(clients)

\* the peer of c has gone while c was registered and nobody has asked the
\* server to stop, and the handler of c has seen it: its recv returned b""
\* or raised OSError
HandlerSawDisconnect(c) ==
    /\ disconnected[c]
    /\ peer[c] \in {"closed", "reset"}
    /\ sdCalls = 0

\* every connection still registered has been sent "<name> left the chat."
\* with the name c registered with
LeftNoticeSent(c) ==
    \A d \in Conns \ {c} :
        Registered(d) => LeftNotice(regName[c]) \in Range(sent[d])

\* C1: when a registered connection disconnects while the server is running
\* (its handler's read returns zero bytes or raises), every connection that
\* is still registered is eventually sent "<name> left the chat." with the
\* name of the disconnected connection.
C1_LeftNoticeEventuallySent ==
    \A c \in Conns : HandlerSawDisconnect(c) ~> LeftNoticeSent(c)

\* a connection that was registered has a peer that has gone
SomePeerGone == \E c \in Conns : regName[c] # <<>> /\ peer[c] \in {"closed", "reset"}

\* thread t is at an acquire of the registry lock
WaitsForLock(t) ==
    /\ procAlive
    /\ stack[t] # <<>>
    /\ Top(t).pc \in {"hc_lock", "bc_acquire", "ac_reg_lock", "sd_lock"}

\* the handler t has read the unit p and its call broadcast(p) has not returned
RelayInProgress(t, p) ==
    /\ procAlive
    /\ Len(stack[t]) >= 2
    /\ stack[t][1].pc = "hc_loop"
    /\ stack[t][1].data = p
    /\ stack[t][2].data = p

\* every registered connection has been sent the unit p
SentToAllRegistered(p) == \A d \in Conns : Registered(d) => p \in Range(sent[d])

\* C2: one dead peer never blocks delivery to healthy peers: after a
\* registered connection has disconnected or failed a send, every payload read
\* from a still-registered connection is eventually delivered to every
\* still-registered connection, and no handler thread waits forever to
\* acquire the registry lock.
C2_DeadPeerNeverBlocks ==
    \A t \in Conns :
        /\ \A p \in Payloads :
               (SomePeerGone /\ RelayInProgress(t, p)) ~> SentToAllRegistered(p)
        /\ (SomePeerGone /\ WaitsForLock(t)) ~> ~WaitsForLock(t)

\* thread t is in a call of broadcast in which a send has raised
FailedFanout(t) ==
    /\ procAlive
    /\ \E i \in DOMAIN stack[t] : stack[t][i].pc = "bc_loop" /\ stack[t][i].failed # {}

\* thread t is at the end of a fan-out in which a send raised: every
\* recipient whose send raised is out of the registry and closed, and every
\* other connection of the fan-out, the excluded one apart, was passed the
\* payload; the call is about to return
FailedFanoutCompleted(t) ==
    /\ AtPc(t, "bc_loop")
    /\ LET f == Top(t) IN
       /\ f.iter = <<>>
       /\ f.failed # {}
       /\ \A c \in f.failed : ~Registered(c) /\ ~sockOpen[c]
       /\ \A d \in Range(f.snap) \ (f.failed \cup {f.exclude}) :
              <<d, f.data>> \in Range(f.okTo)

\* C3: if the send to one recipient fails during broadcast(payload, exclude),
\* that recipient is removed from the registry and closed, the payload is
\* still delivered to every other non-excluded connection of the fan-out, and
\* the call returns to its caller without raising.
C3_FailedSendFanoutCompletes ==
    \A t \in Threads :
        FailedFanout(t) ~> (FailedFanoutCompleted(t) \/ ~procAlive)

\* thread t is at the end of a fan-out (the loop of broadcast is over, the
\* call has not returned yet) in which no send raised
FanoutDone(t) ==
    /\ AtPc(t, "bc_loop")
    /\ Top(t).iter = <<>>
    /\ Top(t).failed = {}

\* how many times the fan-out of frame f passed something to send() for d
TimesSent(f, d) == Cardinality({i \in DOMAIN f.okTo : f.okTo[i][1] = d})

\* C4: for every call broadcast(payload, exclude=C) in which no send fails,
\* the payload is never sent to C, is sent exactly once to every other
\* connection registered when the fan-out runs, and is sent to no connection
\* outside the registry.
C4_FanoutExactlyOnceButExcluded ==
    \A t \in Threads :
        FanoutDone(t) =>
            LET f == Top(t) IN
            /\ TimesSent(f, f.exclude) = 0
            /\ \A d \in Range(clients) \ {f.exclude} :
                   /\ TimesSent(f, d) = 1
                   /\ <<d, f.data>> \in Range(f.okTo)
                   /\ f.data \in Range(sent[d])
            /\ \A d \in Conns \ Range(clients) : TimesSent(f, d) = 0
            /\ Range(f.snap) = Range(clients)

\* a fan-out with an excluded, registered connection has reached another one
C4_Witness ==
    \E t \in Threads :
        /\ FanoutDone(t)
        /\ Top(t).exclude \in Range(clients)
        /\ Len(Top(t).okTo) >= 1

\* the handler t is in the call broadcast(data) of its loop
Relaying(t) ==
    /\ Len(stack[t]) >= 2
    /\ stack[t][1].pc = "hc_loop"
    /\ stack[t][2].pc \in {"bc_acquire", "bc_loop"}

\* C5: every non-empty unit read from a registered connection in the Active
\* state is relayed unmodified, whatever its content, to every connection
\* registered at the time of the relay, the sender included; the server never
\* sends a relayed unit that differs from the unit it read.
C5_RelayVerbatimToAll ==
    \A t \in Conns :
        Relaying(t) =>
            LET unit == stack[t][1].data
                f == stack[t][2]
            IN
            /\ unit \in Payloads
            /\ f.exclude = NoConn
            /\ \A i \in DOMAIN f.okTo : f.okTo[i][2] = unit
            /\ (Len(stack[t]) = 2 /\ FanoutDone(t)) =>
                   \A d \in Range(clients) :
                       /\ <<d, unit>> \in Range(f.okTo)
                       /\ unit \in Range(sent[d])

\* a unit that is not UTF-8 has been relayed to two registered connections,
\* its sender among them
C5_Witness ==
    \E t \in Conns :
        /\ Relaying(t)
        /\ Len(stack[t]) = 2
        /\ FanoutDone(t)
        /\ DecodeFails(stack[t][1].data)
        /\ Registered(t)
        /\ Len(clients) = 2
        /\ Len(stack[t][2].okTo) = 2

\* the reply is nothing but whitespace
Blank(b) == \A i \in DOMAIN b : b[i] \in Whitespace

\* the handshake of c has been rejected: its reply was empty after trimming,
\* or the read for it returned end-of-stream or failed
Rejected(c) ==
    \/ reply[c].kind \in {"eof", "err"}
    \/ reply[c].kind = "data" /\ Blank(reply[c].bytes)

\* u is a "joined the chat." notice
IsJoinNotice(u) ==
    /\ Len(u) >= Len(JoinedSuffix)
    /\ SubSeq(u, Len(u) - Len(JoinedSuffix) + 1, Len(u)) = JoinedSuffix

\* C6: a rejected handshake leaves no trace: the transport is closed, the
\* connection is never added to the registry, no join notice and no
\* acknowledgment is sent to anyone, and no handler is started for it.
C6_RejectedHandshakeLeavesNoTrace ==
    \A c \in Conns :
        Rejected(c) =>
            /\ ~sockOpen[c]
            /\ ~Registered(c)
            /\ regName[c] = <<>>
            /\ joinGen[c] = 0
            /\ ~started[c]
            /\ stack[c] = <<>>
            /\ ConnectedMsg \notin Range(sent[c])
            /\ \A i \in DOMAIN sent[c] : sent[c][i] = NICK_REQUEST
            /\ \A d \in Conns : \A i \in DOMAIN sent[d] :
                   IsJoinNotice(sent[d][i]) =>
                       \E e \in Conns \ {c} :
                           /\ regName[e] # <<>>
                           /\ ~Blank(regName[e])
                           /\ sent[d][i] = JoinNotice(regName[e])

\* a whitespace-only reply has been rejected while another connection is
\* registered, and the accept loop has gone on
C6_Witness ==
    \E c \in Conns :
        /\ reply[c].kind = "data"
        /\ Blank(reply[c].bytes)
        /\ \E d \in Conns \ {c} : Registered(d)
        /\ AtPc(Main, "ac_accept")

\* the reply of c was a name: valid UTF-8 and not empty after trimming
NameSupplied(c) ==
    /\ reply[c].kind = "data"
    /\ \A i \in DOMAIN reply[c].bytes : reply[c].bytes[i] < 128
    /\ ~Blank(reply[c].bytes)

\* every connection has gone through its handshake, registration included
AllHandshakesDone ==
    /\ \A c \in Conns : reply[c].kind # "none"
    /\ ~AtPc(Main, "ac_reg_lock")

\* C7: for any sequence of N connections with distinct or duplicate names,
\* with no disconnect and no shutdown in between, once all handshakes have
\* completed the registry holds exactly as many entries as there were
\* handshakes that supplied a non-empty name.
C7_RegistrySizeIsNamesSupplied ==
    (AllHandshakesDone /\ nfaults = 0 /\ sdCalls = 0) =>
        /\ Len(clients) = Cardinality({c \in Conns : NameSupplied(c)})
        /\ Len(nicknames) = Len(clients)

\* all handshakes are done and two connections are registered under one name
C7_Witness ==
    /\ AllHandshakesDone
    /\ nfaults = 0
    /\ sdCalls = 0
    /\ Len(clients) = 2
    /\ nicknames[1] = nicknames[2]

\* C8: removal is idempotent under races: for every connection, across all
\* interleavings of the broadcast send-failure path and the handler's own
\* read-failure path, its entry is removed at most once and at most one
\* "left the chat." notice is generated for it; the losing path changes
\* nothing.
C8_RemovedAtMostOnce ==
    [][\A c \in Conns :
          /\ removals'[c] <= 1
          /\ leftGen'[c] <= 1
          /\ (AtPc(c, "hc_lock") /\ ~Registered(c) /\ stack'[c] # stack[c]) =>
                 /\ clients' = clients
                 /\ nicknames' = nicknames
                 /\ sockOpen' = sockOpen
                 /\ sent' = sent
                 /\ removals' = removals
                 /\ leftGen' = leftGen
                 /\ Len(stack'[c]) = 1]_vars

\* the send-failure path of a fan-out has removed c, and the handler of c,
\* whose read failed, is at the lock on its way to _remove_client
C8_Witness ==
    \E c \in Conns :
        /\ removals[c] = 1
        /\ disconnected[c]
        /\ AtPc(c, "hc_lock")
        /\ \E t \in Threads : \E i \in DOMAIN stack[t] : c \in stack[t][i].failed

\* thread t takes the last step of shutdown() and returns from it
ShutdownReturns(t) ==
    /\ AtPc(t, "sd_listen")
    /\ stack'[t] = Return(stack[t])

\* C9: for any number N of registered clients, at the moment shutdown()
\* returns the registry is empty, the transport of every connection that was
\* registered when shutdown began is closed, and the listening socket is
\* closed.
C9_ShutdownLeavesNothing ==
    [][\A t \in Threads :
          ShutdownReturns(t) =>
              /\ clients' = <<>>
              /\ nicknames' = <<>>
              /\ \A c \in Range(Top(t).snap) : ~sockOpen'[c]
              /\ listen' = "closed"]_vars

\* some thread is inside shutdown()
InShutdown ==
    \E t \in Threads : \E i \in DOMAIN stack[t] :
        stack[t][i].pc \in {"sd_start", "sd_lock", "sd_listen"}

\* the accept loop is over: start() has returned or the process has ended
AcceptLoopOver == stack[Main] = <<>> \/ ~procAlive

\* C10: from every reachable state of a running server (states after client
\* disconnects and states with a handshake in progress included), a call to
\* shutdown() eventually leads to a state in which shutdown() has returned,
\* the listening socket is closed and the accept loop has terminated.
C10_ShutdownEventuallyCompletes ==
    (sdCalls >= 1) ~> (~InShutdown /\ listen = "closed" /\ AcceptLoopOver)

\* thread t takes a step of shutdown()
ShutdownStepBy(t) ==
    /\ procAlive
    /\ stack[t] # <<>>
    /\ Top(t).pc \in {"sd_start", "sd_lock", "sd_listen"}
    /\ stack'[t] # stack[t]

AwaitingReply(c) ==
    /\ AtPc(Main, "ac_nick_recv")
    /\ Top(Main).client = c
    /\ peer[c] = "alive"

\* a connection later than c has been accepted
LaterAccepted(c) == nextConn > c + 1

\* C12: acceptance never waits for a handshake: while one accepted
\* connection has not yet replied to the nickname request, the server still
\* accepts a later inbound connection (a peer is waiting to be accepted): a
\* server that waits for the reply does so at most until the reply comes.
C12_AcceptanceNeverWaitsForHandshake ==
    \A c \in Conns \ {NumConns} :
        AwaitingReply(c) ~> (LaterAccepted(c) \/ ~AwaitingReply(c))

\* the accept loop waits for a lock its own thread holds
AcceptLoopStalled ==
    /\ AtPc(Main, "bc_acquire")
    /\ lock = Main

\* C13: no per-connection failure terminates or stalls the accept loop:
\* whatever transport error occurs on one connection, as long as shutdown()
\* has not been called the accept loop has not been ended by an exception
\* and is not blocked for good.
C13_AcceptLoopSurvivesFailures ==
    sdCalls = 0 => (~crashed /\ ~AcceptLoopStalled)

\* X has been registered and its peer is there to be sent the acknowledgment
HandshakeSucceeded(x) ==
    /\ regName[x] # <<>>
    /\ peer[x] = "alive"

\* the acknowledgment has been sent to X, and the join notice of X to every
\* other connection that is (still) registered with a live peer
JoinAndAckSent(x) ==
    /\ ConnectedMsg \in Range(sent[x])
    /\ \A d \in Range(clients) \ {x} :
           peer[d] = "alive" /\ d < x => JoinNotice(regName[x]) \in Range(sent[d])

\* C14: on every successful handshake of a connection X, the notice
\* "<name> joined the chat." is sent to each connection registered at that
\* moment other than X, and the acknowledgment "Connected to the server." is
\* sent to X (unless X has gone in the meantime).
C14_JoinNoticeAndAckSent ==
    \A x \in Conns :
        HandshakeSucceeded(x) ~> (JoinAndAckSent(x) \/ peer[x] # "alive")

\* the server passes a unit to send() for c on this step
SendsTo(c) == Len(sent'[c]) > Len(sent[c])

\* C15: before a connection has completed its handshake and been
\* registered, the server sends it nothing except the nickname-request
\* token; no join notice, relayed payload or leave notice is ever sent to a
\* connection that is not in the registry.
C15_NothingButNickBeforeRegistration ==
    [][\A c \in Conns :
          SendsTo(c) =>
              IF regName[c] = <<>>
              THEN sent'[c] = Append(sent[c], NICK_REQUEST)
              ELSE Registered(c)]_vars

\* a payload has been relayed to a registered connection while a later
\* connection, accepted and asked for its nickname, is not registered yet
C15_Witness ==
    \E c, d \in Conns :
        /\ regName[d] = <<>>
        /\ sockOpen[d]
        /\ sent[d] = <<NICK_REQUEST>>
        /\ Registered(c)
        /\ \E i \in DOMAIN sent[c] : sent[c][i] \in Payloads

\* the positions inside a `with self.lock:` block that a thread occupies from
\* one step to the next (the blocks of lines 118-120 and 150-157 are one step)
LockedPcs == {"bc_loop", "rc_pop", "hc_unlock"}

\* the positions at which a thread enters a `with self.lock:` block
EnteringPcs == {"bc_acquire", "hc_lock", "ac_reg_lock", "sd_lock"}

\* stack s has an activation inside a `with self.lock:` block
InCritical(s) == \E i \in DOMAIN s : s[i].pc \in LockedPcs

\* thread t takes a step of its innermost activation (a signal handler that
\* starts on top of it is not one)
StepBy(t) ==
    /\ stack[t] # <<>>
    /\ stack'[t] # stack[t]
    /\ ~(/\ Len(stack'[t]) > Len(stack[t])
         /\ SubSeq(stack'[t], 1, Len(stack[t])) = stack[t])

\* C16: every read and every mutation of the registry (clients, nicknames)
\* by any thread happens while that thread holds the single registry lock,
\* and at most one thread holds the lock at any time: a thread inside a
\* locked block is the holder, a thread enters a block only when the lock is
\* free, and the lists change only on steps of the holder or on the single
\* step of a block entered with the lock free.
C16_RegistryOnlyUnderLock ==
    [][\A t \in Threads :
          /\ InCritical(stack'[t]) => lock' = t
          /\ (StepBy(t) /\ Top(t).pc \in EnteringPcs) => lock = NoThread
          /\ (StepBy(t) /\ Top(t).pc \in LockedPcs) => lock = t
          /\ (StepBy(t) /\ (clients' # clients \/ nicknames' # nicknames)) =>
                 Top(t).pc \in LockedPcs \cup {"ac_reg_lock", "sd_lock"}]_vars

\* a handler is in the middle of a fan-out, holding the lock, while the
\* accept loop waits to register a connection
C16_Witness ==
    \E t \in Conns :
        /\ AtPc(t, "bc_loop")
        /\ lock = t
        /\ Top(t).okTo # <<>>
        /\ AtPc(Main, "ac_reg_lock")

\* unit u occurs exactly once in the log s
Once(s, u) == Cardinality({i \in DOMAIN s : s[i] = u}) = 1

\* the position of a unit that occurs once in s
Pos(s, u) == CHOOSE i \in DOMAIN s : s[i] = u

\* a unit that is sent by a fan-out (not the token or acknowledgment of the
\* handshake, which go to one connection)
IsBroadcastUnit(u) == u \notin {NICK_REQUEST, ConnectedMsg}

\* the reads of handlers that returned the unit u
ReadsOf(u) ==
    UNION {{<<t, i>> : i \in {j \in DOMAIN readLog[t] : readLog[t][j] = u}} :
           t \in Conns}

\* how many broadcasts have had the payload u: relays of a unit read, join
\* notices and left notices
TimesGenerated(u) ==
    Cardinality(ReadsOf(u))
    + Cardinality({c \in Conns : joinGen[c] >= 1 /\ JoinNotice(regName[c]) = u})
    + Cardinality({c \in Conns : leftGen[c] >= 1 /\ LeftNotice(regName[c]) = u})

\* u and v are the payloads of two broadcasts, each the only broadcast with
\* its payload, and the log s holds each of them once
BothOnce(s, u, v) ==
    /\ u # v
    /\ IsBroadcastUnit(u) /\ IsBroadcastUnit(v)
    /\ TimesGenerated(u) = 1 /\ TimesGenerated(v) = 1
    /\ Once(s, u) /\ Once(s, v)

\* C17: fan-outs are serialized: for any two broadcast payloads and any two
\* connections that each receive both, both connections receive the two
\* payloads in the same relative order, and two payloads read from one
\* sender are delivered to every recipient in the order the sender's
\* handler read them.
C17_FanoutsSerialized ==
    /\ \A c, d \in Conns : \A u, v \in Range(sent[c]) :
           (BothOnce(sent[c], u, v) /\ BothOnce(sent[d], u, v)) =>
               ((Pos(sent[c], u) < Pos(sent[c], v))
                    <=> (Pos(sent[d], u) < Pos(sent[d], v)))
    /\ \A t, d \in Conns : \A i, j \in DOMAIN readLog[t] :
           (i < j /\ BothOnce(sent[d], readLog[t][i], readLog[t][j])) =>
               Pos(sent[d], readLog[t][i]) < Pos(sent[d], readLog[t][j])

\* two different payloads, read by two different handlers, have each been
\* delivered to both connections
C17_Witness ==
    \E u, v \in Payloads :
        /\ u # v
        /\ readLog[1] = <<u>>
        /\ readLog[2] = <<v>>
        /\ \A d \in Conns : Once(sent[d], u) /\ Once(sent[d], v)

\* C18: once shutdown() has returned (the listening socket is closed from
\* then on), the registry stays empty in every later state: no connection is
\* registered afterwards, a connection that was waiting for its nickname
\* reply when shutdown() ran included.
C18_RegistryStaysEmptyAfterShutdown ==
    listen = "closed" => (clients = <<>> /\ nicknames = <<>>)

\* the entry of c is in the lists, with the name c supplied
EntryOf(c) ==
    \E i \in DOMAIN clients : clients[i] = c /\ nicknames[i] = regName[c]

\* C19: in every reachable state in which no thread holds the registry lock,
\* the clients and nicknames lists have equal length, no connection occurs
\* twice in clients, and nicknames[i] is the name that connection clients[i]
\* supplied in its handshake; removing one connection removes exactly its
\* own entry, even when another registered connection has the same name.
C19_ListsParallelKeyedByConnection ==
    /\ lock = NoThread =>
           /\ Len(clients) = Len(nicknames)
           /\ \A i, j \in DOMAIN clients : clients[i] = clients[j] => i = j
           /\ \A i \in DOMAIN clients :
                  /\ i \in DOMAIN nicknames
                  /\ nicknames[i] = regName[clients[i]]
                  /\ nicknames[i] = Strip(reply[clients[i]].bytes)
    /\ \A c \in Conns :
           /\ removals[c] >= 1 => ~Registered(c)
           /\ (regName[c] # <<>> /\ removals[c] = 0 /\ sdCalls = 0) => EntryOf(c)

\* two connections were registered under one name and the first has been
\* removed: the entry of the second is still there
C19_Witness ==
    /\ regName[1] # <<>>
    /\ regName[1] = regName[2]
    /\ removals[1] = 1
    /\ sdCalls = 0
    /\ clients = <<2>>
    /\ nicknames = <<regName[2]>>

\* C20: for every connection that completes its handshake, the
\* acknowledgment "Connected to the server." is the first unit the server
\* sends to it after the nickname-request token.
C20_AckIsFirstUnitAfterNick ==
    \A c \in Conns :
        Len(sent[c]) >= 2 => (sent[c][1] = NICK_REQUEST /\ sent[c][2] = ConnectedMsg)

====
